---- MODULE Spec2Model ----
(***************************************************************************)
(* Model of the wave-vector synthesis and grid pipeline of                 *)
(* GFS_Wave_Forecast: the regridder of fetch_wavewatch3.py, the sampled    *)
(* grid fill of fetch_real_gfs.py, the converters of fetch_simple.py and   *)
(* fetch_gfs_data.py, the JSON encoders and the land mask of               *)
(* generate_land_mask.py.                                                  *)
(*                                                                         *)
(* Units.  Angles of position (latitude, longitude, grid spacing) are      *)
(* integers counting hundredths of a degree, so 2.5 degrees is 250 and     *)
(* every bound of a land box (17.8, 154.5, ...) is an integer.  Heights and*)
(* velocities are integers counting tenths of a metre.  Wave directions    *)
(* are whole degrees.  Floating point is modelled by exact arithmetic on   *)
(* these integers plus the one special value NaN; the trigonometric        *)
(* functions are modelled on the multiples of 90 degrees, where their      *)
(* values are taken as the exact -1, 0, 1.                                 *)
(***************************************************************************)
EXTENDS Integers, Sequences, FiniteSets, TLC

\* script:        the program that runs (see "The runs" below)
\* pc:            where the run is: "main" (main has been entered), "start"
\*                (the source data is at hand), "parsed", "built" (a grid or
\*                document has been constructed), "saved", "except" (an
\*                exception has reached the handler of main), "failed"
\* wave_data:     the parsed source data the constructor is given
\* grid:          the constructed grid: header, u_data, v_data
\* velocity_data: the two-band document built in memory
\* file:          the document written to gfs-wave-data.json
\* err:           the exception the run failed with, or "none"
\* args:          the arguments of the function called, when the run is one
\*                call of a function; a parameter the body assigns to (lon of
\*                is_land_detailed) changes here
\* result:        what the call returned
\* attempt:       the loop variable of download_grib2
\* log:           what the run did to the world, in order: the GET requests it
\*                issued, its sleeps, its writes of the output file
VARIABLES script, pc, wave_data, grid, velocity_data, file, err,
          args, result, attempt, log

vars == <<script, pc, wave_data, grid, velocity_data, file, err,
          args, result, attempt, log>>

(***************************************************************************)
(* Bounds of the model.                                                    *)
(***************************************************************************)
\* largest number of columns of a source grid handed to the regridder
MaxSrcCols == 11
\* largest number of rows of a source grid handed to the regridder
MaxSrcRows == 1
\* largest number of rows / columns of a source grid handed to a converter
MaxRows == 2
MaxCols == 3
\* the sampling pass of fetch_real_gfs may lose all but every k-th lattice
\* point, k up to MaxThin, in each axis
MaxThin == 2

(***************************************************************************)
(* Floating point values.                                                  *)
(***************************************************************************)
\* the not-a-number value of a float; any value no sample can take
NaN == -999999
\* float('inf'), the initial min_dist of the nearest-neighbour search
Inf == -1

isnan(x) == x = NaN

\* a - b, a * b on floats: NaN propagates
FSub(a, b) == IF isnan(a) \/ isnan(b) THEN NaN ELSE a - b
FMul(a, b) == IF isnan(a) \/ isnan(b) THEN NaN ELSE a * b
\* a slip in the scaling: the magnitude is the whole height
FWhole(x) == IF isnan(x) THEN NaN ELSE x
\* x * 0.5 on a height in tenths of a metre (heights of the model are even)
FHalf(x) == IF isnan(x) THEN NaN ELSE x \div 2

\* math.cos(math.radians(a)) and math.sin(math.radians(a)), a in degrees
FCos(a) ==
    IF isnan(a) THEN NaN
    ELSE CASE a % 360 = 0   -> 1
           [] a % 360 = 90  -> 0
           [] a % 360 = 180 -> -1
           [] a % 360 = 270 -> 0
FSin(a) ==
    IF isnan(a) THEN NaN
    ELSE CASE a % 360 = 0   -> 0
           [] a % 360 = 90  -> 1
           [] a % 360 = 180 -> 0
           [] a % 360 = 270 -> -1

\* Python's round(a / b) for b > 0: to the nearest integer, ties to even
PyRoundDiv(a, b) ==
    LET q == a \div b
        r == a % b
    IN  IF 2 * r < b THEN q
        ELSE IF 2 * r > b THEN q + 1
        ELSE IF q % 2 = 0 THEN q ELSE q + 1

Abs(x) == IF x < 0 THEN -x ELSE x
Max(a, b) == IF a > b THEN a ELSE b
Min(a, b) == IF a < b THEN a ELSE b

(***************************************************************************)
(* numpy arrays: a shape and the elements in C (row-major) order.          *)
(***************************************************************************)
Array(shape, flat) == [shape |-> shape, flat |-> flat]
Rank(a) == Len(a.shape)
\* a[i, j] of a 2-D array, i and j counted from 0
At2(a, i, j) == a.flat[i * a.shape[2] + j + 1]
\* a[i] of a 1-D array
At1(a, i) == a.flat[i + 1]
\* a.flatten()
Flatten(a) == a.flat
\* the absent value of an optional array (directions is None)
None == Array(<<>>, <<>>)

(***************************************************************************)
(* generate_land_mask.py: is_land_detailed.                                *)
(***************************************************************************)
RECURSIVE NormalizeLon(_)
NormalizeLon(lon) ==
    IF lon > 18000 THEN NormalizeLon(lon - 36000)
    ELSE IF lon < -18000 THEN NormalizeLon(lon + 36000)
    ELSE lon

\* lo_lat < lat < hi_lat and lo_lon < lon < hi_lon
Box(lat, lon, lo_lat, hi_lat, lo_lon, hi_lon) ==
    lo_lat < lat /\ lat < hi_lat /\ lo_lon < lon /\ lon < hi_lon

LandPolar(lat) == lat < -6000 \/ lat > 8500

LandNorthAmerica(lat, lon) ==
    \/ Box(lat, lon, 5100, 7200, -17000, -13000)
    \/ Box(lat, lon, 4200, 6000, -14000, -11000)
    \/ Box(lat, lon, 4200, 7000, -11000, -5200)
    \/ Box(lat, lon, 3200, 4900, -12500, -10400)
    \/ Box(lat, lon, 2500, 4900, -10400, -8000)
    \/ Box(lat, lon, 2500, 4700, -8000, -6700)
    \/ Box(lat, lon, 2400, 3100, -8800, -8000)

LandCentralAmerica(lat, lon) ==
    \/ Box(lat, lon, 1400, 3300, -11800, -8600)
    \/ Box(lat, lon, 700, 1800, -9300, -7700)
    \/ /\ Box(lat, lon, 1000, 2700, -8500, -5900)
       /\ \/ Box(lat, lon, 1950, 2350, -8500, -7400)
          \/ Box(lat, lon, 1750, 2000, -7500, -6800)
          \/ Box(lat, lon, 1750, 1870, -7850, -7600)
          \/ Box(lat, lon, 1780, 1860, -6730, -6520)

LandSouthAmerica(lat, lon) == Box(lat, lon, -5600, 1300, -8200, -3400)

LandEurope(lat, lon) ==
    \/ Box(lat, lon, 5500, 7100, 400, 3100)
    \/ Box(lat, lon, 3600, 5500, -1000, 1500)
    \/ Box(lat, lon, 4000, 6000, 1200, 4000)
    \/ Box(lat, lon, 3500, 4700, -600, 3700)

LandAfrica(lat, lon) ==
    \/ Box(lat, lon, 1500, 3800, -1800, 5200)
    \/ Box(lat, lon, -3500, 2000, -1800, 5200)
    \/ Box(lat, lon, -2600, -1200, 4300, 5100)

LandMiddleEast(lat, lon) == Box(lat, lon, 1200, 4200, 3400, 6300)

LandAsia(lat, lon) ==
    \/ Box(lat, lon, 4500, 7800, 3000, 7000)
    \/ Box(lat, lon, 5000, 7800, 7000, 11000)
    \/ Box(lat, lon, 5000, 7500, 11000, 18000)
    \/ Box(lat, lon, 3500, 5000, 4500, 8500)
    \/ Box(lat, lon, 800, 3700, 6800, 9700)
    \/ Box(lat, lon, 1800, 5400, 7300, 13500)
    \/ Box(lat, lon, 0, 2800, 9200, 11000)
    \/ /\ Box(lat, lon, -1100, 600, 9500, 14100)
       /\ \/ Box(lat, lon, -600, 600, 9500, 10600)
          \/ Box(lat, lon, -900, -600, 10500, 11500)
          \/ Box(lat, lon, -500, 800, 10800, 12000)
          \/ Box(lat, lon, -600, 200, 11800, 12600)
          \/ Box(lat, lon, -900, 0, 13000, 14100)
    \/ Box(lat, lon, 500, 1900, 11700, 12700)
    \/ Box(lat, lon, 3000, 4600, 12900, 14600)
    \/ Box(lat, lon, 2150, 2550, 12000, 12200)
    \/ Box(lat, lon, 550, 1000, 7950, 8200)

\* a slip in a box: Australia entered with its longitudes west of Greenwich
LandOceaniaWest(lat, lon) ==
    \/ Box(lat, lon, -4400, -1000, -15400, -11300)
    \/ Box(lat, lon, -4200, -3400, 17200, 17900)
    \/ Box(lat, lon, -4700, -4000, 16600, 17500)

LandOceania(lat, lon) ==
    \/ Box(lat, lon, -4400, -1000, 11300, 15400)
    \/ Box(lat, lon, -4200, -3400, 17200, 17900)
    \/ Box(lat, lon, -4700, -4000, 16600, 17500)

LandAtlanticIslands(lat, lon) ==
    \/ Box(lat, lon, 6300, 6700, -2500, -1300)
    \/ Box(lat, lon, 5000, 6100, -1100, 200)
    \/ Box(lat, lon, 5900, 8400, -7500, -1100)
    \/ Box(lat, lon, 7600, 8100, 1000, 3400)

LandPacificIslands(lat, lon) ==
    \/ Box(lat, lon, 1850, 2250, -16100, -15450)
    \/ Box(lat, lon, -2300, -1950, 16300, 16900)

is_land_detailed(lat, lon0) ==
    LET lon == NormalizeLon(lon0)
    IN  \/ LandPolar(lat)
        \/ LandNorthAmerica(lat, lon)
        \/ LandCentralAmerica(lat, lon)
        \/ LandSouthAmerica(lat, lon)
        \/ LandEurope(lat, lon)
        \/ LandAfrica(lat, lon)
        \/ LandMiddleEast(lat, lon)
        \/ LandAsia(lat, lon)
        \/ LandOceania(lat, lon)
        \/ LandAtlanticIslands(lat, lon)
        \/ LandPacificIslands(lat, lon)

(***************************************************************************)
(* The whole-globe target grid of fetch_wavewatch3.regrid_to_velocity_     *)
(* format and fetch_real_gfs.fetch_gfs_wave_grid_simple.                   *)
(***************************************************************************)
GridDx == 250
GridDy == 250
GridNx == 144
GridNy == 73
GridLa1 == 9000
GridLa2 == -9000
GridLo1 == 0
GridLo2 == 35750
\* half the width of the source window the regridder searches
WindowHalf == 5

Header(dx, dy, nx, ny, la1, la2, lo1, lo2) ==
    [dx |-> dx, dy |-> dy, nx |-> nx, ny |-> ny,
     la1 |-> la1, la2 |-> la2, lo1 |-> lo1, lo2 |-> lo2]

GlobalHeader ==
    Header(GridDx, GridDy, GridNx, GridNy, GridLa1, GridLa2, GridLo1, GridLo2)

\* the value of grid when no grid has been constructed
NoGrid == [header |-> Header(0, 0, 0, 0, 0, 0, 0, 0), u_data |-> <<>>, v_data |-> <<>>]

\* centre of target cell (y, x): target_lat, target_lon
TargetLat(y) == GridLa1 - (y * GridDy)
TargetLon(x) == GridLo1 + (x * GridDx)

(***************************************************************************)
(* fetch_wavewatch3.py: regrid_to_velocity_format.                         *)
(***************************************************************************)
\* range(max(0, n // 2 - 5), min(n, n // 2 + 5)): first index and the index
\* after the last
WindowLo(n) == Max(0, n \div 2 - WindowHalf)
WindowHi(n) == Min(n, n \div 2 + WindowHalf)

\* the (i, j) the two nested source loops visit, in the order they visit them
WindowIdx(wd) ==
    LET lo_i == WindowLo(wd.lats.shape[1])
        hi_i == WindowHi(wd.lats.shape[1])
        lo_j == WindowLo(wd.lons.shape[2])
        hi_j == WindowHi(wd.lons.shape[2])
        nc   == hi_j - lo_j
    IN  [k \in 1..((hi_i - lo_i) * nc) |->
            <<lo_i + ((k - 1) \div nc), lo_j + ((k - 1) % nc)>>]

\* src_lat, and src_lon after "if src_lon > 180: src_lon -= 360"
SrcLat(wd, i, j) == IF Rank(wd.lats) > 1 THEN At2(wd.lats, i, j) ELSE At1(wd.lats, i)
SrcLon(wd, i, j) ==
    LET src_lon == IF Rank(wd.lons) > 1 THEN At2(wd.lons, i, j) ELSE At1(wd.lons, j)
    IN  IF src_lon > 18000 THEN src_lon - 36000 ELSE src_lon

\* dlat**2 + dlon**2 with dlon wrapped
SqDist(target_lat, target_lon, src_lat, src_lon) ==
    LET dlat  == target_lat - src_lat
        dlon0 == target_lon - src_lon
        dlon1 == IF dlon0 > 18000 THEN dlon0 - 36000 ELSE dlon0
        dlon  == IF dlon1 < -18000 THEN dlon1 + 36000 ELSE dlon1
    IN  dlat * dlat + dlon * dlon

\* a slip in the comparison: a sample as close as the current one replaces it
CloserOrEqual(dist, min_dist) == min_dist = Inf \/ dist <= min_dist

\* dist < min_dist
Closer(dist, min_dist) == min_dist = Inf \/ dist < min_dist

\* the body of the inner source loop for sample (i, j)
NearestStep(wd, st, target_lat, target_lon, i, j) ==
    LET dist == SqDist(target_lat, target_lon, SrcLat(wd, i, j), SrcLon(wd, i, j))
    IN  IF Closer(dist, st.min_dist)
        THEN [min_dist |-> dist,
              nearest_height |-> At2(wd.heights, i, j),
              nearest_dir |-> IF wd.directions # None
                              THEN At2(wd.directions, i, j)
                              ELSE st.nearest_dir]
        ELSE st

RECURSIVE NearestScan(_, _, _, _, _, _)
NearestScan(wd, idx, k, st, target_lat, target_lon) ==
    IF k > Len(idx) THEN st
    ELSE NearestScan(wd, idx, k + 1,
                     NearestStep(wd, st, target_lat, target_lon, idx[k][1], idx[k][2]),
                     target_lat, target_lon)

\* min_dist, nearest_height, nearest_dir after the source loops of one cell
Nearest(wd, target_lat, target_lon) ==
    NearestScan(wd, WindowIdx(wd), 1,
                [min_dist |-> Inf, nearest_height |-> 0, nearest_dir |-> 0],
                target_lat, target_lon)

\* "Convert wave height and direction to u/v components" of the regridder
RegridUV(nearest_height, nearest_dir) ==
    IF ~isnan(nearest_height) /\ nearest_height > 0
    THEN LET math_angle == FSub(270, nearest_dir)
             magnitude  == FHalf(nearest_height)
         IN  [u |-> FMul(magnitude, FCos(math_angle)),
              v |-> FMul(magnitude, FSin(math_angle))]
    ELSE [u |-> 0, v |-> 0]

\* len(source_lons[0]) raises TypeError when source_lons is 1-D
RegridRaises(wd) == Rank(wd.lons) # 2

regrid_to_velocity_format(wd) ==
    LET cells == [k \in 1..(GridNx * GridNy) |->
                    LET st == Nearest(wd, TargetLat((k - 1) \div GridNx),
                                          TargetLon((k - 1) % GridNx))
                    IN  RegridUV(st.nearest_height, st.nearest_dir)]
    IN  [header |-> GlobalHeader,
         u_data |-> [k \in 1..(GridNx * GridNy) |-> cells[k].u],
         v_data |-> [k \in 1..(GridNx * GridNy) |-> cells[k].v]]

(***************************************************************************)
(* fetch_simple.py: wave_to_uv and convert_to_leaflet_format.              *)
(***************************************************************************)
\* a slip in the conversion: the sine and the cosine exchanged
wave_to_uv_swapped(direction, height) ==
    LET math_angle == FSub(270, direction)
        magnitude  == FHalf(height)
    IN  [u |-> FMul(magnitude, FSin(math_angle)),
         v |-> FMul(magnitude, FCos(math_angle))]

wave_to_uv(direction, height) ==
    LET math_angle == FSub(270, direction)
        magnitude  == FHalf(height)
    IN  [u |-> FMul(magnitude, FCos(math_angle)),
         v |-> FMul(magnitude, FSin(math_angle))]

\* the elements of a set of numbers in ascending order: sorted(set(...))
RECURSIVE SortedSeq(_)
SortedSeq(S) ==
    IF S = {} THEN <<>>
    ELSE LET m == CHOOSE a \in S : \A b \in S : a <= b
         IN  <<m>> \o SortedSeq(S \ {m})

SeqRange(q) == {q[k] : k \in 1..Len(q)}

\* a.size
Size(a) == Len(a.flat)

\* lats.min() and lons.min() raise ValueError on an array of size 0
ConvertRaises(data) == Size(data.lats) = 0 \/ Size(data.lons) = 0

\* lat_1d and lon_1d: column 0 of 2-D lats and row 0 of 2-D lons, or the
\* sorted distinct values (a non-2-D wave_height flattens lats and lons first)
Lat1d(data) ==
    IF Rank(data.wave_height) = 2 /\ Rank(data.lats) = 2
    THEN [i \in 1..data.lats.shape[1] |-> At2(data.lats, i - 1, 0)]
    ELSE SortedSeq(SeqRange(Flatten(data.lats)))
Lon1d(data) ==
    IF Rank(data.wave_height) = 2 /\ Rank(data.lats) = 2
    THEN [j \in 1..data.lons.shape[2] |-> At2(data.lons, 0, j - 1)]
    ELSE SortedSeq(SeqRange(Flatten(data.lons)))

\* abs(c[1] - c[0]) if len(c) > 1 else the default
Spacing(c, default) == IF Len(c) > 1 THEN Abs(c[2] - c[1]) ELSE default

\* the body of the zip loop for one (h, d)
LeafletUV(h, d) ==
    IF isnan(h) \/ isnan(d)
    THEN [u |-> 0, v |-> 0]
    ELSE wave_to_uv(d, h)

\* zip stops at the shorter of the two sequences
ZipLen(a, b) == Min(Len(a), Len(b))

\* a slip in the flatten branch: nx taken from the distinct longitudes
FlatNxFromLons(data) == Len(Lon1d(data))

\* "ny, nx = 1, len(wave_height)" after the reshape(-1) of the flatten branch
FlatNx(data) == Size(data.wave_height)

convert_to_leaflet_format(data) ==
    LET two_d  == Rank(data.wave_height) = 2
        ny     == IF two_d THEN data.wave_height.shape[1] ELSE 1
        nx     == IF two_d THEN data.wave_height.shape[2] ELSE FlatNx(data)
        lat_1d == Lat1d(data)
        lon_1d == Lon1d(data)
        flat_height    == Flatten(data.wave_height)
        flat_direction == Flatten(data.wave_direction)
        n      == ZipLen(flat_height, flat_direction)
    IN  [header |-> Header(Spacing(lon_1d, 250), Spacing(lat_1d, 250), nx, ny,
                           lat_1d[1], lat_1d[Len(lat_1d)],
                           lon_1d[1], lon_1d[Len(lon_1d)]),
         u_data |-> [k \in 1..n |-> LeafletUV(flat_height[k], flat_direction[k]).u],
         v_data |-> [k \in 1..n |-> LeafletUV(flat_height[k], flat_direction[k]).v]]

(***************************************************************************)
(* save_to_json of fetch_simple.py, fetch_wavewatch3.py, fetch_real_gfs.py *)
(* (the three are the same): the document written to the file.             *)
(***************************************************************************)
Band(parameterNumber, h, values) ==
    [header |-> [parameterCategory |-> 2, parameterNumber |-> parameterNumber,
                 dx |-> h.dx, dy |-> h.dy, nx |-> h.nx, ny |-> h.ny,
                 la1 |-> h.la1, la2 |-> h.la2, lo1 |-> h.lo1, lo2 |-> h.lo2],
     data |-> values]

\* a slip in the encoder: the two bands written in the other order
save_to_json_v_first(data) ==
    << Band(3, data.header, data.v_data), Band(2, data.header, data.u_data) >>

save_to_json(data) ==
    << Band(2, data.header, data.u_data), Band(3, data.header, data.v_data) >>

(***************************************************************************)
(* fetch_gfs_data.py: wave_to_uv on arrays (parse_grib_file) and           *)
(* convert_to_leaflet_velocity_format.                                     *)
(***************************************************************************)
\* numpy's wave_to_uv, element by element: NaN in, NaN out
wave_to_uv_np(direction, height) ==
    [u |-> Array(height.shape,
                 [k \in 1..Size(height) |-> wave_to_uv(direction.flat[k], height.flat[k]).u]),
     v |-> Array(height.shape,
                 [k \in 1..Size(height) |-> wave_to_uv(direction.flat[k], height.flat[k]).v])]

\* what parse_grib_file returns
parse_grib_file(ds) ==
    LET uv == wave_to_uv_np(ds.wave_direction, ds.wave_height)
    IN  [u |-> uv.u, v |-> uv.v, lats |-> ds.lats, lons |-> ds.lons]

\* np.sort(a) and np.sort(a)[::-1] of a 1-D array of distinct numbers
NpSort(a) == SortedSeq(SeqRange(a.flat))
Reverse(q) == [k \in 1..Len(q) |-> q[Len(q) + 1 - k]]

\* lat_sorted[0] and lon_sorted[0] raise IndexError on an empty array
VelocityRaises(data) == Size(data.lats) = 0 \/ Size(data.lons) = 0

convert_to_leaflet_velocity_format(data) ==
    LET lat_sorted == Reverse(NpSort(data.lats))
        lon_sorted == NpSort(data.lons)
        h == Header(Spacing(lon_sorted, 25), Spacing(lat_sorted, 25),
                    Len(lon_sorted), Len(lat_sorted),
                    lat_sorted[1], lat_sorted[Len(lat_sorted)],
                    lon_sorted[1], lon_sorted[Len(lon_sorted)])
    IN  << Band(2, h, Flatten(data.u)), Band(3, h, Flatten(data.v)) >>

(***************************************************************************)
(* fetch_real_gfs.py: find_nearest_sample and fetch_gfs_wave_grid_simple.  *)
(***************************************************************************)
\* sample_step
SampleStep == 4

\* the (y, x) of the sampling pass: range(0, ny, step) x range(0, nx, step)
Lattice ==
    {<<y, x>> \in (0..(GridNy - 1)) \X (0..(GridNx - 1)) :
        y % SampleStep = 0 /\ x % SampleStep = 0}

\* the key find_nearest_sample looks up
NearestKey(y, x, step) ==
    << Max(0, Min(72, PyRoundDiv(y, step) * step)),
       Max(0, Min(143, PyRoundDiv(x, step) * step)) >>

\* sampled_data.get(key) is not None
HasSample(y, x, sampled_data, step) == NearestKey(y, x, step) \in DOMAIN sampled_data

find_nearest_sample(y, x, sampled_data, step) == sampled_data[NearestKey(y, x, step)]

\* a slip in the fill: a cell with no sample appends nothing usable (NaN)
FillUVNoFallback(y, x, sampled_data) ==
    IF HasSample(y, x, sampled_data, SampleStep)
    THEN LET data       == find_nearest_sample(y, x, sampled_data, SampleStep)
             math_angle == FSub(270, data.wave_direction)
             magnitude  == FHalf(data.wave_height)
         IN  [u |-> FMul(magnitude, FCos(math_angle)),
              v |-> FMul(magnitude, FSin(math_angle))]
    ELSE [u |-> NaN, v |-> NaN]

\* the fill loop's body for cell (y, x)
FillUV(y, x, sampled_data) ==
    IF HasSample(y, x, sampled_data, SampleStep)
    THEN LET data       == find_nearest_sample(y, x, sampled_data, SampleStep)
             direction  == data.wave_direction
             height     == data.wave_height
             math_angle == FSub(270, direction)
             magnitude  == FHalf(height)
         IN  [u |-> FMul(magnitude, FCos(math_angle)),
              v |-> FMul(magnitude, FSin(math_angle))]
    ELSE [u |-> 0, v |-> 0]

\* responses: what fetch_point_from_gfs returned for the lattice points it
\* returned a dict for; the other points are not in its domain
fetch_gfs_wave_grid_simple(responses) ==
    LET sampled_data == responses
        cells == [k \in 1..(GridNx * GridNy) |->
                    FillUV((k - 1) \div GridNx, (k - 1) % GridNx, sampled_data)]
    IN  [header |-> GlobalHeader,
         u_data |-> [k \in 1..(GridNx * GridNy) |-> cells[k].u],
         v_data |-> [k \in 1..(GridNx * GridNy) |-> cells[k].v]]

(***************************************************************************)
(* Inputs.  A source field gives every point of the globe a height and a   *)
(* direction, so that a value found in an output tells which point of the  *)
(* source it came from.                                                    *)
(***************************************************************************)
\* a regular source grid for the regridder: row i at latitude -50 i degrees,
\* column j at longitude j times 5 degrees (two columns) or 30 degrees;
\* heights hv, rising by 2 m per sample when hv is positive; one direction
SrcLons(c, j) == IF c = 2 THEN 500 * j ELSE 3000 * j
SrcHeight(hv, k) == IF ~isnan(hv) /\ hv > 0 THEN hv + 20 * k ELSE hv
SrcGrid(r, c, hv, dir, coord_rank) ==
    [lats |-> IF coord_rank = 2
              THEN Array(<<r, c>>, [k \in 1..(r * c) |-> 0 - 5000 * ((k - 1) \div c)])
              ELSE Array(<<r>>, [k \in 1..r |-> 0 - 5000 * (k - 1)]),
     lons |-> IF coord_rank = 2
              THEN Array(<<r, c>>, [k \in 1..(r * c) |-> SrcLons(c, (k - 1) % c)])
              ELSE Array(<<c>>, [k \in 1..c |-> SrcLons(c, k - 1)]),
     heights |-> Array(<<r, c>>, [k \in 1..(r * c) |-> SrcHeight(hv, k - 1)]),
     directions |-> IF dir.has
                    THEN Array(<<r, c>>, [k \in 1..(r * c) |-> dir.val])
                    ELSE None]

DirChoices ==
    {[has |-> FALSE, val |-> 0], [has |-> TRUE, val |-> NaN],
     [has |-> TRUE, val |-> 0], [has |-> TRUE, val |-> 90]}

\* every shape with positive heights and direction 0, and one sample with
\* every height and direction; coordinates 2-D (pygrib) or 1-D (xarray)
RegridInputs ==
    {SrcGrid(r, c, 40, [has |-> TRUE, val |-> 0], coord_rank) :
        r \in 1..MaxSrcRows, c \in {1, 2, MaxSrcCols}, coord_rank \in {1, 2}}
    \cup
    {SrcGrid(1, 1, hv, dir, coord_rank) :
        hv \in {NaN, 0, -20, 40}, dir \in DirChoices, coord_rank \in {1, 2}}

\* the source field of the converters
FieldHeight(lat, lon) == 2 * (100 + 10 * ((500 - lat) \div 250) + (lon \div 250))
FieldDir(lat, lon) == 90 * ((lon \div 250) % 4)

\* latitude of row i and longitude of column j of an R x C source grid,
\* 2.5 degrees apart, rows north to south or south to north, columns west to
\* east or east to west
ConvLat(i, R, north_first) ==
    IF north_first THEN 500 - 250 * i ELSE 500 - 250 * (R - 1 - i)
ConvLon(j, C, west_first) ==
    IF west_first THEN 250 * j ELSE 250 * (C - 1 - j)

\* element k (from 1) of the flattened field, with NaN put at the first
\* element when asked
ConvValue(k, R, C, north_first, west_first, is_height, nan_first) ==
    LET lat == ConvLat((k - 1) \div C, R, north_first)
        lon == ConvLon((k - 1) % C, C, west_first)
    IN  IF nan_first /\ k = 1 THEN NaN
        ELSE IF is_height THEN FieldHeight(lat, lon) ELSE FieldDir(lat, lon)

\* kind: the rank of the data and of the coordinate arrays
ConvKinds == {"2d_1d", "2d_2d", "3d_1d", "1d_1d"}

ConvInput(kind, R, C, north_first, west_first, nan_h, nan_d) ==
    LET shape == CASE kind \in {"2d_1d", "2d_2d"} -> <<R, C>>
                   [] kind = "3d_1d" -> <<1, R, C>>
                   [] kind = "1d_1d" -> <<R * C>>
        cshape == IF kind = "2d_2d" THEN <<R, C>> ELSE <<R * C>>
    IN  [wave_height |-> Array(shape, [k \in 1..(R * C) |->
                            ConvValue(k, R, C, north_first, west_first, TRUE, nan_h)]),
         wave_direction |-> Array(shape, [k \in 1..(R * C) |->
                            ConvValue(k, R, C, north_first, west_first, FALSE, nan_d)]),
         lats |-> IF kind \in {"2d_1d", "3d_1d"}
                  THEN Array(<<R>>, [i \in 1..R |-> ConvLat(i - 1, R, north_first)])
                  ELSE Array(cshape, [k \in 1..(R * C) |->
                                        ConvLat((k - 1) \div C, R, north_first)]),
         lons |-> IF kind \in {"2d_1d", "3d_1d"}
                  THEN Array(<<C>>, [j \in 1..C |-> ConvLon(j - 1, C, west_first)])
                  ELSE Array(cshape, [k \in 1..(R * C) |->
                                        ConvLon((k - 1) % C, C, west_first)])]

ConvInputs ==
    {ConvInput(kind, R, C, north_first, west_first, nan_h, nan_d) :
        kind \in ConvKinds, R \in 0..MaxRows, C \in 0..MaxCols,
        north_first \in BOOLEAN, west_first \in BOOLEAN,
        nan_h \in BOOLEAN, nan_d \in BOOLEAN}

\* what cfgrib hands parse_grib_file: data of rank 2 or 3, 1-D coordinates
GribInputs ==
    {ConvInput(kind, R, C, north_first, west_first, nan_h, nan_d) :
        kind \in {"2d_1d", "3d_1d"}, R \in 0..MaxRows, C \in 0..MaxCols,
        north_first \in BOOLEAN, west_first \in BOOLEAN,
        nan_h \in BOOLEAN, nan_d \in BOOLEAN}

\* the answers of the sampling pass: every ty-th lattice row and tx-th
\* lattice column answered (ty = 0: no point answered)
Responses(ty, tx, hv, dv) ==
    LET got == IF ty = 0 THEN {}
               ELSE {p \in Lattice : (p[1] \div SampleStep) % ty = 0
                                  /\ (p[2] \div SampleStep) % tx = 0}
    IN  [p \in got |->
            [wave_height |-> hv + 20 * (((p[1] + p[2]) \div SampleStep) % 2),
             wave_direction |-> dv, wave_period |-> 0]]

SampleInputs ==
    {Responses(ty, tx, hv, dv) :
        ty \in 0..MaxThin, tx \in 1..MaxThin, hv \in {0, 40}, dv \in {0, 90}}

\* grids handed to save_to_json directly
EncodeInputs ==
    {[header |-> Header(250, 250, nx, ny, 500, 500 - 250 * (ny - 1), 0, 250 * (nx - 1)),
      u_data |-> [k \in 1..(nx * ny) |-> 2 * k],
      v_data |-> [k \in 1..(nx * ny) |-> 0 - 2 * k]] :
        nx \in 0..MaxCols, ny \in 0..MaxRows}

(***************************************************************************)
(* The runs.  script names the program that runs: "ww3" fetch_wavewatch3,  *)
(* "simple" fetch_simple, "gfs" fetch_gfs_data, "real" fetch_real_gfs,     *)
(* "encode" a call of save_to_json on a grid of the caller's.              *)
(***************************************************************************)
NoDocument == <<>>
\* args and result of a run that is not one call of a function
NoArgs == [call |-> "none"]
NoResult == [returned |-> FALSE]
\* the event of writing the output file
WriteEvent == [op |-> "write"]

\* sampled_data = {} of fetch_gfs_wave_grid_simple
NoSamples == << >>

Init ==
    /\ \/ script = "ww3"    /\ wave_data \in RegridInputs /\ pc = "start" /\ grid = NoGrid
       \/ script = "simple" /\ wave_data \in ConvInputs   /\ pc = "start" /\ grid = NoGrid
       \/ script = "gfs"    /\ wave_data \in GribInputs   /\ pc = "start" /\ grid = NoGrid
       \/ script = "real"   /\ wave_data \in SampleInputs /\ pc = "start" /\ grid = NoGrid
       \/ script = "encode" /\ wave_data = None /\ pc = "built" /\ grid \in EncodeInputs
       \/ script = "ww3"    /\ wave_data = None      /\ pc = "main" /\ grid = NoGrid
       \/ script = "real"   /\ wave_data = NoSamples /\ pc = "main" /\ grid = NoGrid
    /\ velocity_data = NoDocument
    /\ file = NoDocument
    /\ err = "none"
    /\ args = NoArgs /\ result = NoResult /\ attempt = 0 /\ log = <<>>

\* fetch_wavewatch3.main: velocity_data = regrid_to_velocity_format(wave_data)
RegridToVelocityFormat ==
    /\ script = "ww3" /\ pc = "start"
    /\ IF RegridRaises(wave_data)
       THEN pc' = "except" /\ err' = "TypeError" /\ grid' = grid
       ELSE pc' = "built" /\ err' = err /\ grid' = regrid_to_velocity_format(wave_data)
    /\ UNCHANGED <<script, wave_data, velocity_data, file, args, result, attempt, log>>

\* fetch_simple.main: wave_data = convert_to_leaflet_format(parsed_data)
ConvertToLeafletFormat ==
    /\ script = "simple" /\ pc = "start"
    /\ IF ConvertRaises(wave_data)
       THEN pc' = "failed" /\ err' = "ValueError" /\ grid' = grid
       ELSE pc' = "built" /\ err' = err /\ grid' = convert_to_leaflet_format(wave_data)
    /\ UNCHANGED <<script, wave_data, velocity_data, file, args, result, attempt, log>>

\* fetch_real_gfs.main: wave_data = fetch_gfs_wave_grid_simple()
FetchGfsWaveGridSimple ==
    /\ script = "real" /\ pc = "start"
    /\ pc' = "built"
    /\ grid' = fetch_gfs_wave_grid_simple(wave_data)
    /\ UNCHANGED <<script, wave_data, velocity_data, file, err, args, result, attempt, log>>

\* save_to_json(wave_data): builds the document and writes it
SaveToJson ==
    /\ script \in {"ww3", "simple", "real", "encode"} /\ pc = "built"
    /\ pc' = "saved"
    /\ velocity_data' = save_to_json(grid)
    /\ file' = velocity_data'
    /\ log' = Append(log, WriteEvent)
    /\ UNCHANGED <<script, wave_data, grid, err, args, result, attempt>>

\* fetch_gfs_data.fetch_gfs_wave_data: return parse_grib_file(temp_file)
ParseGribFile ==
    /\ script = "gfs" /\ pc = "start"
    /\ pc' = "parsed"
    /\ wave_data' = parse_grib_file(wave_data)
    /\ UNCHANGED <<script, grid, velocity_data, file, err, args, result, attempt, log>>

\* fetch_gfs_data.main: velocity_data = convert_to_leaflet_velocity_format(wave_data)
ConvertToLeafletVelocityFormat ==
    /\ script = "gfs" /\ pc = "parsed"
    /\ IF VelocityRaises(wave_data)
       THEN pc' = "failed" /\ err' = "IndexError" /\ velocity_data' = velocity_data
       ELSE pc' = "built" /\ err' = err
            /\ velocity_data' = convert_to_leaflet_velocity_format(wave_data)
    /\ UNCHANGED <<script, wave_data, grid, file, args, result, attempt, log>>

\* fetch_gfs_data.main: json.dump(velocity_data, f)
DumpVelocityData ==
    /\ script = "gfs" /\ pc = "built"
    /\ pc' = "saved"
    /\ file' = velocity_data
    /\ log' = Append(log, WriteEvent)
    /\ UNCHANGED <<script, wave_data, grid, velocity_data, err, args, result, attempt>>

\* fetch_wavewatch3.main, the try block up to the regridder: download_grib2
\* returns None or neither parser gives wave data, and main raises; or the
\* wave data is at hand
Ww3DownloadAndParse ==
    /\ script = "ww3" /\ pc = "main"
    /\ \/ \E wd \in RegridInputs :
            wave_data' = wd /\ pc' = "start" /\ err' = err
       \/ wave_data' = wave_data /\ pc' = "except" /\ err' = "Exception"
    /\ UNCHANGED <<script, grid, velocity_data, file, args, result, attempt, log>>

\* fetch_real_gfs.main, the point requests of fetch_gfs_wave_grid_simple:
\* the responses are at hand, or an exception leaves the function (a
\* response whose wave_height is not a number fails in the fill)
FetchPoints ==
    /\ script = "real" /\ pc = "main"
    /\ \/ \E sampled \in SampleInputs :
            wave_data' = sampled /\ pc' = "start" /\ err' = err
       \/ wave_data' = wave_data /\ pc' = "except" /\ err' = "TypeError"
    /\ UNCHANGED <<script, grid, velocity_data, file, args, result, attempt, log>>

\* the names fetch_simple.py binds at module level: its imports and its
\* functions
FetchSimpleNames ==
    {"json", "sys", "math", "os", "subprocess", "datetime", "timedelta", "Path",
     "requests",
     "get_latest_gfs_cycle", "download_grib_data", "try_parse_with_cfgrib",
     "try_parse_with_pygrib", "wave_to_uv", "convert_to_leaflet_format",
     "save_to_json", "main"}

\* from module import name: ImportError when the module does not define name
ImportRaises(names, name) == name \notin names

\* the except branch of fetch_wavewatch3.main and of fetch_real_gfs.main:
\* from fetch_simple import generate_realistic_synthetic_data.  The import
\* raises inside the handler, so the exception leaves main; were the name
\* defined, the handler would go on to save_to_json
FallBackToSynthetic ==
    /\ script \in {"ww3", "real"} /\ pc = "except"
    /\ ImportRaises(FetchSimpleNames, "generate_realistic_synthetic_data")
    /\ pc' = "failed" /\ err' = "ImportError"
    /\ UNCHANGED <<script, wave_data, grid, velocity_data, file, args, result,
                   attempt, log>>

Next ==
    \/ RegridToVelocityFormat
    \/ ConvertToLeafletFormat
    \/ FetchGfsWaveGridSimple
    \/ SaveToJson
    \/ ParseGribFile
    \/ ConvertToLeafletVelocityFormat
    \/ DumpVelocityData
    \/ Ww3DownloadAndParse
    \/ FetchPoints
    \/ FallBackToSynthetic

Spec == Init /\ [][Next]_vars

(***************************************************************************)
(* Calls.  A run that is one call of a function: script names the          *)
(* function, args holds its arguments.                                     *)
(***************************************************************************)
\* directions are multiples of 90 degrees up to 90 * MaxQuarter, heights whole
\* metres up to MaxHeight
MaxQuarter == 5
MaxHeight == 4
\* is_land_detailed is called with longitudes up to MaxTurns turns away from
\* [-180, 180]
MaxTurns == 2
\* download_grib2 is called with max_retries up to MaxRetries
MaxRetries == 3
\* fetch_gfs_wave_point_forecast is called with num_days up to MaxNumDays
MaxNumDays == 18
\* the clock shows a time of day 1 to day MaxDay (day 0 is there to step
\* back to)
MaxDay == 2

UvDirections == {90 * q : q \in 0..MaxQuarter}
UvHeights == {10 * m : m \in 0..MaxHeight}

\* a float so large that lon - 360 rounds back to lon (the spacing of doubles
\* exceeds 720 from 2**62 on; 1e20 and inf are such values).  No arithmetic is
\* done on it.
HugeLon == 2000000000

\* lon -= 360 and lon += 360 on floats
LonMinus360(lon) == IF Abs(lon) >= HugeLon THEN lon ELSE lon - 36000
LonPlus360(lon) == IF Abs(lon) >= HugeLon THEN lon ELSE lon + 36000

LandLats == {-9000, -2500, 0, 1800, 3000, 6000, 9000}
LandLons == {-18000, -16000, -6730, -4000, 0, 10000, 13500, 18000}

\* lon_in is the longitude in [-180, 180], turns the whole turns added to it
LandCalls ==
    {[call |-> "is_land_detailed", lat |-> lat, lon |-> lon + 36000 * k,
      lon_in |-> lon, turns |-> k] :
        lat \in LandLats, lon \in LandLons, k \in (0 - MaxTurns)..MaxTurns}
    \cup
    {[call |-> "is_land_detailed", lat |-> lat, lon |-> lon,
      lon_in |-> lon, turns |-> 0] :
        lat \in {0}, lon \in {HugeLon, 0 - HugeLon}}

UvCalls ==
    {[call |-> "wave_to_uv", direction |-> d, height |-> h] :
        d \in UvDirections, h \in UvHeights}

DownloadCalls ==
    {[call |-> "download_grib2", max_retries |-> m] : m \in 0..MaxRetries}

\* what a GET can come to: status 200 and the body read to its end, status
\* 200 and iter_content raising while the body is read, another status,
\* requests.get raising
GetOutcomes == {"200", "200_body_raises", "other_status", "get_raises"}

\* datetime(day, hour, minute, second): an instant counted in seconds, the
\* date counted in days
Datetime(day, hour, minute, second) ==
    day * 86400 + hour * 3600 + minute * 60 + second
\* t.hour
HourOf(t) == (t % 86400) \div 3600
\* t.replace(hour=h, minute=0, second=0, microsecond=0)
ReplaceHour(t, h) == (t \div 86400) * 86400 + h * 3600
\* t.strftime('%Y%m%d'): the date of t, the time of day dropped
StrftimeYmd(t) == t \div 86400
\* f'{n:02d}' and strftime('%H'): the two digits
TwoDigits(n) == << n \div 10, n % 10 >>

\* a slip in the test: a cycle exactly four hours old is not yet taken
get_latest_gfs_cycle_late(now) ==
    LET cycle_hour == (HourOf(now) \div 6) * 6
        cycle_time == ReplaceHour(now, cycle_hour)
    IN  IF now - cycle_time <= 4 * 3600
        THEN cycle_time - 6 * 3600
        ELSE cycle_time

\* get_latest_gfs_cycle of fetch_gfs_data, and word for word of
\* fetch_point_forecast and fetch_real_gfs
get_latest_gfs_cycle(now) ==
    LET cycle_hour == (HourOf(now) \div 6) * 6
        cycle_time == ReplaceHour(now, cycle_hour)
    IN  IF now - cycle_time < 4 * 3600
        THEN cycle_time - 6 * 3600
        ELSE cycle_time

\* get_latest_ww3_url: the run time, and the date and cycle strings that
\* make the URL
get_latest_ww3_url(now) ==
    LET cycle_hour == (HourOf(now) \div 6) * 6
        run_time0  == ReplaceHour(now, cycle_hour)
        run_time   == IF now - run_time0 < 4 * 3600
                      THEN run_time0 - 6 * 3600
                      ELSE run_time0
    IN  [url |-> [date_str |-> StrftimeYmd(run_time),
                  cycle_str |-> TwoDigits(HourOf(run_time))],
         run_time |-> run_time]

\* cycles = [0, 6, 12, 18]
cycles == {0, 6, 12, 18}
\* max(values, default=default)
MaxDefault(values, default) ==
    IF values = {} THEN default
    ELSE CHOOSE m \in values : \A c \in values : c <= m

\* get_latest_gfs_cycle of fetch_simple: (cycle_date, cycle_hour)
simple_get_latest_gfs_cycle(now) ==
    LET adjusted_time == now - 4 * 3600
        current_hour  == HourOf(adjusted_time)
        latest_cycle  == MaxDefault({c \in cycles : c <= current_hour}, 18)
    IN  IF current_hour < 4
        THEN [cycle_date |-> StrftimeYmd(adjusted_time - 86400),
              cycle_hour |-> << 1, 8 >>]
        ELSE [cycle_date |-> StrftimeYmd(adjusted_time),
              cycle_hour |-> TwoDigits(latest_cycle)]

\* the two sources of fetch_gfs_wave_data: url (NOMADS) and alt_url (the AWS
\* mirror)
GfsSources == << "nomads.ncep.noaa.gov", "noaa-gfs-bdp-pds.s3.amazonaws.com" >>
\* what a GET of fetch_gfs_wave_data can come to: a response with a good
\* status, a response whose raise_for_status raises HTTPError, requests.get
\* raising (ConnectionError, Timeout)
FetchOutcomes == {"ok", "http_error", "request_error"}
\* the files a source can answer with: a GRIB file with swh and mwd (each
\* source its own grid), or bytes no wave data can be read from
SourceFiles(i) ==
    {[readable |-> TRUE,
      ds |-> ConvInput("2d_1d", 1, i, TRUE, TRUE, FALSE, FALSE)],
     [readable |-> FALSE, from |-> GfsSources[i]]}
\* parse_grib_file of a downloaded file: the parsed dict, or None when
\* opening raises or the wave variables are missing
parse_downloaded(f) == IF f.readable THEN parse_grib_file(f.ds) ELSE None

\* a slip: raise_for_status is not called, only requests.get raising counts
RaisesOnlyFromGet(outcome) == outcome = "request_error"

\* the GET and raise_for_status raise a requests.exceptions.RequestException
RaisesRequestException(outcome) == outcome \in {"http_error", "request_error"}

FetchCalls == {[call |-> "fetch_gfs_wave_data"]}

\* what the GET of fetch_gfs_point_data can come to: status 200, another
\* status, requests.exceptions.Timeout, another exception
PointOutcomes == {"200", "other_status", "timeout", "error"}
\* None, where a dict of point data is expected
NoPointData == [is_none |-> TRUE]
\* if data:
Truthy(data) == ~data.is_none

\* a slip: the text output is parsed and a dict comes back
fetch_gfs_text_output_parsed ==
    [is_none |-> FALSE, wave_height |-> 20, wave_period |-> 8,
     wave_direction |-> 180, wind_speed |-> 10]

\* fetch_gfs_text_output: "Return None to trigger fallback"
fetch_gfs_text_output == NoPointData

\* fetch_gfs_point_data, by what its GET comes to
fetch_gfs_point_data(outcome) ==
    IF outcome = "200" THEN fetch_gfs_text_output ELSE NoPointData

\* lat_grid = round(lat / 0.25) * 0.25
QuarterGrid(x) == PyRoundDiv(x, 25) * 25
\* the event of the GET of fetch_gfs_point_data
PointGetEvent(forecast_hour, lat, lon, outcome) ==
    [op |-> "get", forecast_hour |-> forecast_hour,
     lat_grid |-> QuarterGrid(lat), lon_grid |-> QuarterGrid(lon),
     outcome |-> outcome]

\* a slip in the test: hour 384 is already beyond the model
BeyondModelFrom384(forecast_hour) == forecast_hour >= 384

\* if forecast_hour > 384: break
BeyondModel(forecast_hour) == forecast_hour > 384

\* what the GET of the day comes to in the call a: bad_outcome on bad_day,
\* status 200 on the others
OutcomeOn(a, day) == IF day = a.bad_day THEN a.bad_outcome ELSE "200"

\* round(lat / 0.25) and round(lon / 0.25) raise ValueError on a NaN, before
\* the try of fetch_gfs_point_data is entered
RoundRaises(lat, lon) == isnan(lat) \/ isnan(lon)
\* the event of an exception reaching the except of the loop
PointExceptEvent(forecast_hour) ==
    [op |-> "except", forecast_hour |-> forecast_hour, outcome |-> "ValueError"]

\* for day in range(num_days): the turns of the loop of
\* fetch_gfs_wave_point_forecast from day on, after the turns in steps; a
\* turn is the day, what was asked and what came back.  An exception of
\* fetch_gfs_point_data is caught and the loop continues
RECURSIVE PointLoop(_, _, _, _)
PointLoop(a, lon, day, steps) ==
    IF day >= a.num_days THEN steps
    ELSE LET forecast_hour == day * 24
         IN  IF BeyondModel(forecast_hour) THEN steps
             ELSE IF RoundRaises(a.lat, lon)
             THEN PointLoop(a, lon, day + 1,
                    Append(steps, [day |-> day,
                                   event |-> PointExceptEvent(forecast_hour),
                                   data |-> NoPointData]))
             ELSE LET outcome == OutcomeOn(a, day)
                  IN  PointLoop(a, lon, day + 1,
                        Append(steps,
                               [day |-> day,
                                event |-> PointGetEvent(forecast_hour, a.lat, lon, outcome),
                                data |-> fetch_gfs_point_data(outcome)]))

\* forecast.append({'day': day, 'forecast_hour': forecast_hour, **data}), for
\* the turns whose data is not empty
ForecastOf(steps) ==
    LET kept == SelectSeq(steps, LAMBDA t : Truthy(t.data))
    IN  [i \in DOMAIN kept |->
            [day |-> kept[i].day, forecast_hour |-> kept[i].event.forecast_hour,
             data |-> kept[i].data]]

\* fetch_gfs_wave_point_forecast(lat, lon, num_days): the forecast returned
\* and the requests made
fetch_gfs_wave_point_forecast(a) ==
    LET lon   == IF ~isnan(a.lon) /\ a.lon < 0 THEN a.lon + 36000 ELSE a.lon
        steps == PointLoop(a, lon, 0, <<>>)
    IN  [forecast |-> ForecastOf(steps),
         requests |-> [i \in DOMAIN steps |-> steps[i].event]]

\* generate_synthetic_forecast_point: the base values by latitude; the
\* random variation is not modelled
generate_synthetic_forecast_point(lat, lon, day) ==
    LET abs_lat == Abs(lat)
    IN  IF ~isnan(lat) /\ abs_lat > 4000 THEN [base_height |-> 30, base_period |-> 10]
        ELSE IF ~isnan(lat) /\ abs_lat > 3000 THEN [base_height |-> 25, base_period |-> 8]
        ELSE IF ~isnan(lat) /\ abs_lat < 1500 THEN [base_height |-> 12, base_period |-> 6]
        ELSE [base_height |-> 20, base_period |-> 7]

\* the calls of fetch_gfs_wave_point_forecast, and the runs of the script
\* (lat and lon from the command line or the defaults 35.0 and -40.0,
\* num_days its default 10)
PointPlaces == {<<3500, -4000>>, <<-3312, 1012>>, <<NaN, 1012>>}
PointPlans ==
    {[bad_day |-> d, bad_outcome |-> o] : d \in {0, 5, 16}, o \in PointOutcomes}
PointCalls ==
    {[call |-> "fetch_gfs_wave_point_forecast", lat |-> p[1], lon |-> p[2],
      num_days |-> n, bad_day |-> q.bad_day, bad_outcome |-> q.bad_outcome] :
        p \in PointPlaces, n \in 0..MaxNumDays, q \in PointPlans}
    \cup
    {[call |-> "fetch_point_forecast", lat |-> p[1], lon |-> p[2],
      num_days |-> 10, bad_day |-> q.bad_day, bad_outcome |-> q.bad_outcome] :
        p \in PointPlaces, q \in PointPlans}

\* the times datetime.utcnow() gives: every hour of the day, at the start,
\* the middle and the last second of the hour
ClockCalls ==
    {[call |-> "get_latest_gfs_cycle", now |-> Datetime(d, h, m, sec)] :
        d \in 1..MaxDay, h \in 0..23,
        m \in {0, 30, 59}, sec \in {0, 59}}

InitCalls ==
    /\ args \in UvCalls \cup LandCalls \cup DownloadCalls \cup ClockCalls
                \cup FetchCalls \cup PointCalls
    /\ wave_data = None
    /\ script = args.call
    /\ pc = "start"
    /\ grid = NoGrid
    /\ velocity_data = NoDocument
    /\ file = NoDocument
    /\ err = "none"
    /\ result = NoResult /\ attempt = 0 /\ log = <<>>

Returned(value) == [returned |-> TRUE, value |-> value]

\* the one element of a one-element array
Only(a) == a.flat[1]

\* the conversion by each of its four copies: wave_to_uv of fetch_simple,
\* wave_to_uv of fetch_gfs_data, the regridder's, the sampled fill's
WaveToUv ==
    /\ script = "wave_to_uv" /\ pc = "start"
    /\ pc' = "returned"
    /\ LET d  == args.direction
           h  == args.height
           np == wave_to_uv_np(Array(<<1>>, <<d>>), Array(<<1>>, <<h>>))
       IN  result' = Returned(
              [simple |-> wave_to_uv(d, h),
               np     |-> [u |-> Only(np.u), v |-> Only(np.v)],
               regrid |-> RegridUV(h, d),
               fill   |-> FillUV(0, 0, [p \in {<<0, 0>>} |->
                              [wave_height |-> h, wave_direction |-> d,
                               wave_period |-> 0]])])
    /\ UNCHANGED <<script, wave_data, grid, velocity_data, file, err, args,
                   attempt, log>>

\* is_land_detailed: one turn of "while lon > 180: lon -= 360" or of
\* "while lon < -180: lon += 360"
NormalizeLongitude ==
    /\ script = "is_land_detailed" /\ pc = "start"
    /\ args.lon > 18000 \/ args.lon < -18000
    /\ args' = [args EXCEPT !.lon = IF @ > 18000 THEN LonMinus360(@)
                                    ELSE LonPlus360(@)]
    /\ UNCHANGED <<script, pc, wave_data, grid, velocity_data, file, err, result,
                   attempt, log>>

\* is_land_detailed: the tests after the two loops, and the return
IsLandDetailed ==
    /\ script = "is_land_detailed" /\ pc = "start"
    /\ ~(args.lon > 18000 \/ args.lon < -18000)
    /\ pc' = "returned"
    /\ result' = Returned(is_land_detailed(args.lat, args.lon))
    /\ UNCHANGED <<script, wave_data, grid, velocity_data, file, err, args,
                   attempt, log>>

GetEvent(k, outcome) == [op |-> "get", attempt |-> k, outcome |-> outcome]
SleepEvent(seconds) == [op |-> "sleep", seconds |-> seconds]

\* download_grib2: one turn of the loop up to the test before the sleep: the
\* GET, and the return when the status is 200 and the body is read
DownloadGet ==
    /\ script = "download_grib2" /\ pc = "start"
    /\ attempt < args.max_retries
    /\ \E outcome \in GetOutcomes :
        /\ log' = Append(log, GetEvent(attempt, outcome))
        /\ IF outcome = "200"
           THEN /\ pc' = "returned"
                /\ result' = Returned("tmp_file.name")
                /\ attempt' = attempt
           ELSE /\ result' = result
                /\ IF attempt < args.max_retries - 1
                   THEN pc' = "sleep" /\ attempt' = attempt
                   ELSE pc' = "start" /\ attempt' = attempt + 1
    /\ UNCHANGED <<script, wave_data, grid, velocity_data, file, err, args>>

\* a slip in the backoff: the wait grows by two seconds a turn
wait_linear(k) == 2 * k

\* wait = 2 ** attempt
wait(k) == 2 ^ k

\* download_grib2: time.sleep(wait), and on to the next turn
DownloadSleep ==
    /\ script = "download_grib2" /\ pc = "sleep"
    /\ log' = Append(log, SleepEvent(wait(attempt)))
    /\ attempt' = attempt + 1
    /\ pc' = "start"
    /\ UNCHANGED <<script, wave_data, grid, velocity_data, file, err, args,
                   result>>

\* download_grib2: return None after the loop
DownloadReturnNone ==
    /\ script = "download_grib2" /\ pc = "start"
    /\ attempt >= args.max_retries
    /\ pc' = "returned"
    /\ result' = Returned("None")
    /\ UNCHANGED <<script, wave_data, grid, velocity_data, file, err, args,
                   attempt, log>>

\* get_latest_gfs_cycle, by each of its variants, at the time args.now
GetLatestGfsCycle ==
    /\ script = "get_latest_gfs_cycle" /\ pc = "start"
    /\ pc' = "returned"
    /\ result' = Returned(
          [gfs    |-> get_latest_gfs_cycle(args.now),
           ww3    |-> get_latest_ww3_url(args.now),
           simple |-> simple_get_latest_gfs_cycle(args.now)])
    /\ UNCHANGED <<script, wave_data, grid, velocity_data, file, err, args,
                   attempt, log>>

\* the event of a GET to a source, with the file the response carried
UrlGetEvent(url, outcome, f) == [op |-> "get", url |-> url, outcome |-> outcome, content |-> f]

\* fetch_gfs_wave_data: the try block of the primary URL: the GET,
\* raise_for_status, and return parse_grib_file(temp_file); a
\* RequestException leads into the except branch
PrimaryGet ==
    /\ script = "fetch_gfs_wave_data" /\ pc = "start"
    /\ \E outcome \in FetchOutcomes, f \in SourceFiles(1) :
        /\ log' = Append(log, UrlGetEvent(GfsSources[1], outcome, f))
        /\ IF RaisesRequestException(outcome)
           THEN pc' = "except" /\ result' = result
           ELSE pc' = "returned" /\ result' = Returned(parse_downloaded(f))
    /\ UNCHANGED <<script, wave_data, grid, velocity_data, file, err, args, attempt>>

\* fetch_gfs_wave_data: the except branch: the GET of the AWS mirror, and
\* return None on any exception
MirrorGet ==
    /\ script = "fetch_gfs_wave_data" /\ pc = "except"
    /\ \E outcome \in FetchOutcomes, f \in SourceFiles(2) :
        /\ log' = Append(log, UrlGetEvent(GfsSources[2], outcome, f))
        /\ IF outcome = "ok"
           THEN result' = Returned(parse_downloaded(f))
           ELSE result' = Returned(None)
    /\ pc' = "returned"
    /\ UNCHANGED <<script, wave_data, grid, velocity_data, file, err, args, attempt>>

\* one call of fetch_gfs_wave_point_forecast
FetchGfsWavePointForecast ==
    /\ script = "fetch_gfs_wave_point_forecast" /\ pc = "start"
    /\ pc' = "returned"
    /\ LET r == fetch_gfs_wave_point_forecast(args)
       IN  /\ result' = Returned(r.forecast)
           /\ log' = log \o r.requests
    /\ UNCHANGED <<script, wave_data, grid, velocity_data, file, err, args, attempt>>

\* the event of print(json.dumps(forecast))
PrintEvent(forecast) == [op |-> "print", forecast |-> forecast]

\* the entry point of fetch_point_forecast.py: the forecast is fetched, the
\* synthetic one of 10 days is generated when it is empty, and it is printed
PointMain ==
    /\ script = "fetch_point_forecast" /\ pc = "start"
    /\ pc' = "returned"
    /\ LET r == fetch_gfs_wave_point_forecast(args)
           forecast ==
              IF r.forecast # <<>> THEN r.forecast
              ELSE [i \in 1..10 |->
                      [day |-> i - 1,
                       synthetic |->
                          generate_synthetic_forecast_point(args.lat, args.lon, i - 1)]]
       IN  /\ result' = Returned(r.forecast)
           /\ log' = (log \o r.requests) \o << PrintEvent(forecast) >>
    /\ UNCHANGED <<script, wave_data, grid, velocity_data, file, err, args, attempt>>

NextCalls ==
    \/ WaveToUv
    \/ NormalizeLongitude
    \/ IsLandDetailed
    \/ DownloadGet
    \/ DownloadSleep
    \/ DownloadReturnNone
    \/ GetLatestGfsCycle
    \/ PrimaryGet
    \/ MirrorGet
    \/ FetchGfsWavePointForecast
    \/ PointMain

\* a call that can take a step takes it: the interpreter runs on
SpecCalls == InitCalls /\ [][NextCalls]_vars /\ WF_vars(NextCalls)

(***************************************************************************)
(* Mains.  A run of a script's main from its first line: what the network  *)
(* and the GRIB libraries answer is chosen by the environment.             *)
(***************************************************************************)
\* self.opendap_urls of GFSWaveDataFetcher, in list order
opendap_urls == << "pae-paha.pacioos.hawaii.edu", "coastwatch.pfeg.noaa.gov" >>
\* what _fetch_from_opendap does for one endpoint: it returns the processed
\* dict (never an empty one) or raises
OpendapOutcomes == {"data", "raises"}

\* data is None
NoData == [source |-> "None"]
\* the dict _fetch_from_opendap returns for url
fetch_from_opendap(url) ==
    [source |-> "WAVEWATCH III Global Wave Model (NOAA)", url |-> url]
\* _fetch_from_grib: "For now, return None to fall back to sample data"; it
\* returns None and raises nothing
fetch_from_grib == [raises |-> FALSE, value |-> NoData]
\* _generate_sample_data: 80 time steps of sample waves
generate_sample_data ==
    [source |-> "Sample Data (Real NOAA data temporarily unavailable)",
     timeSteps |-> 80]

\* the index of the first endpoint, from i on, that gives data; 0 when none
RECURSIVE FirstData(_, _)
FirstData(outcomes, i) ==
    IF i > Len(opendap_urls) THEN 0
    ELSE IF outcomes[i] = "data" THEN i
    ELSE FirstData(outcomes, i + 1)

\* fetch_latest_forecast: for url in self.opendap_urls: if data: return data;
\* then try: return self._fetch_from_grib(...) except Exception; then return
\* self._generate_sample_data()
fetch_latest_forecast(outcomes) ==
    LET i == FirstData(outcomes, 1)
    IN  IF i # 0 THEN fetch_from_opendap(opendap_urls[i])
        ELSE IF fetch_from_grib.raises THEN generate_sample_data
        ELSE fetch_from_grib.value

\* the event of asking an OpenDAP endpoint
OpenEvent(url, outcome) == [op |-> "open_dataset", url |-> url, outcome |-> outcome]
\* the endpoints fetch_latest_forecast asks, in order
Asked(outcomes) ==
    LET i == FirstData(outcomes, 1)
        n == IF i # 0 THEN i ELSE Len(opendap_urls)
    IN  [k \in 1..n |-> OpenEvent(opendap_urls[k], outcomes[k])]

InitMain ==
    /\ script \in {"simple", "gfs", "backend"}
    /\ pc = "main"
    /\ wave_data = None
    /\ grid = NoGrid
    /\ velocity_data = NoDocument
    /\ file = NoDocument
    /\ err = "none"
    /\ args = NoArgs /\ result = NoResult /\ attempt = 0 /\ log = <<>>

\* fetch_simple.main: grib_data, url = download_grib_data(...); sys.exit(1)
\* when every source failed, else the bytes go to temp_wave_data.grib2
DownloadGribData ==
    /\ script = "simple" /\ pc = "main"
    /\ \E downloaded \in BOOLEAN :
        IF downloaded
        THEN pc' = "downloaded" /\ err' = err
        ELSE pc' = "failed" /\ err' = "SystemExit"
    /\ UNCHANGED <<script, wave_data, grid, velocity_data, file, args, result,
                   attempt, log>>

\* fetch_simple.main: try_parse_with_cfgrib, then try_parse_with_pygrib;
\* sys.exit(1) when both return None
TryParse ==
    /\ script = "simple" /\ pc = "downloaded"
    /\ \/ \E parsed_data \in ConvInputs :
            wave_data' = parsed_data /\ pc' = "start" /\ err' = err
       \/ wave_data' = wave_data /\ pc' = "failed" /\ err' = "SystemExit"
    /\ UNCHANGED <<script, grid, velocity_data, file, args, result, attempt, log>>

\* fetch_gfs_data.main: wave_data = fetch_gfs_wave_data(...): a source
\* downloads and its file opens, or the function returns None (both
\* sources failed, or the file does not parse) and main calls sys.exit(1)
FetchGfsWaveData ==
    /\ script = "gfs" /\ pc = "main"
    /\ \/ \E ds \in GribInputs :
            wave_data' = ds /\ pc' = "start" /\ err' = err
       \/ wave_data' = wave_data /\ pc' = "failed" /\ err' = "SystemExit"
    /\ UNCHANGED <<script, grid, velocity_data, file, args, result, attempt, log>>

\* backend main: data = fetcher.fetch_latest_forecast(max_timesteps=80)
FetchLatestForecast ==
    /\ script = "backend" /\ pc = "main"
    /\ \E outcomes \in [1..Len(opendap_urls) -> OpendapOutcomes] :
        /\ result' = Returned(fetch_latest_forecast(outcomes))
        /\ log' = log \o Asked(outcomes)
    /\ pc' = "fetched"
    /\ UNCHANGED <<script, wave_data, grid, velocity_data, file, err, args, attempt>>

\* a slip in save_to_json: the output file is opened before data is looked at
BackendSaveToJsonOpensFirst ==
    /\ script = "backend" /\ pc = "fetched"
    /\ IF result.value = NoData
       THEN pc' = "failed" /\ err' = "SystemExit"
       ELSE pc' = "saved" /\ err' = err
    /\ file' = << result.value >>
    /\ log' = Append(log, WriteEvent)
    /\ UNCHANGED <<script, wave_data, grid, velocity_data, args, result, attempt>>

\* backend main: result = fetcher.save_to_json(data), which returns None
\* without writing when data is None; then "if result and data" or
\* sys.exit(1)
BackendSaveToJson ==
    /\ script = "backend" /\ pc = "fetched"
    /\ IF result.value = NoData
       THEN /\ pc' = "failed" /\ err' = "SystemExit"
            /\ UNCHANGED <<file, log>>
       ELSE /\ pc' = "saved" /\ err' = err
            /\ file' = << result.value >>
            /\ log' = Append(log, WriteEvent)
    /\ UNCHANGED <<script, wave_data, grid, velocity_data, args, result, attempt>>

NextMain ==
    \/ DownloadGribData
    \/ TryParse
    \/ FetchGfsWaveData
    \/ FetchLatestForecast
    \/ BackendSaveToJson
    \/ ConvertToLeafletFormat
    \/ SaveToJson
    \/ ParseGribFile
    \/ ConvertToLeafletVelocityFormat
    \/ DumpVelocityData

\* a run that can take a step takes it: the interpreter runs on
SpecMain == InitMain /\ [][NextMain]_vars /\ WF_vars(NextMain)

(***************************************************************************)
(* Properties.                                                             *)
(***************************************************************************)
\* a grid has been constructed by the script's constructor
Built(s) == script = s /\ pc \in {"built", "saved"}

\* row y and column x (from 0) of element k (from 1) of a grid nx wide
RowOf(k, nx) == (k - 1) \div nx
ColOf(k, nx) == (k - 1) % nx

\* whether target cell k of the whole-globe grid has its centre on land
LandCell(k) ==
    is_land_detailed(TargetLat(RowOf(k, GridNx)), TargetLon(ColOf(k, GridNx)))

\* C1: every target cell of regrid_to_velocity_format whose centre the land
\* mask classifies as land has output exactly (0, 0), whatever the samples.
C1_LandCellsAreZero ==
    Built("ww3") =>
        \A k \in 1..Len(grid.u_data) :
            LandCell(k) => grid.u_data[k] = 0 /\ grid.v_data[k] = 0

\* the shorter way round between two longitudes, and the squared angular
\* distance between two points
WrapDLon(a, b) ==
    LET d == (a - b) % 36000 IN IF d > 18000 THEN 36000 - d ELSE d
AngularSqDist(lat1, lon1, lat2, lon2) ==
    (lat1 - lat2) * (lat1 - lat2) + WrapDLon(lon1, lon2) * WrapDLon(lon1, lon2)

\* the conversion of source sample n (from 1, row-major) of a regrid input
SampleUV(wd, n) ==
    RegridUV(wd.heights.flat[n],
             IF wd.directions # None THEN wd.directions.flat[n] ELSE 0)

\* the squared distance from target cell k to each source sample of wd
CellDists(wd, k) ==
    [n \in 1..Size(wd.heights) |->
        AngularSqDist(TargetLat(RowOf(k, GridNx)), TargetLon(ColOf(k, GridNx)),
                      wd.lats.flat[n], wd.lons.flat[n])]

\* C2: every non-land target cell holds the conversion of a source sample at
\* the least squared angular distance over all the samples of the input.
C2_NearestOverAllSamples ==
    Built("ww3") =>
        \A k \in 1..Len(grid.u_data) :
            ~LandCell(k) =>
                LET ds == CellDists(wave_data, k)
                IN  \E n \in DOMAIN ds :
                        /\ \A m \in DOMAIN ds : ds[n] <= ds[m]
                        /\ grid.u_data[k] = SampleUV(wave_data, n).u
                        /\ grid.v_data[k] = SampleUV(wave_data, n).v

\* C3: no u or v emitted by convert_to_leaflet_format or by
\* regrid_to_velocity_format is NaN.
C3_NoNaNEmitted ==
    (Built("ww3") \/ Built("simple")) =>
        \A k \in 1..Len(grid.u_data) :
            ~isnan(grid.u_data[k]) /\ ~isnan(grid.v_data[k])

\* the latitude and longitude of element k (from 1) of the flattened source
\* data: from per-point coordinate arrays, or from 1-D coordinate axes
LatOfFlat(data, n, k) ==
    IF Size(data.lats) = n THEN data.lats.flat[k]
    ELSE data.lats.flat[((k - 1) \div Size(data.lons)) + 1]
LonOfFlat(data, n, k) ==
    IF Size(data.lons) = n THEN data.lons.flat[k]
    ELSE data.lons.flat[((k - 1) % Size(data.lons)) + 1]

\* values holds, at the place header h gives the point (lat, lon), value:
\* values[y*nx + x] for lat = la1 - y*dy and lon = lo1 + x*dx, la1 >= la2
HeldAt(h, values, lat, lon, value) ==
    /\ h.la1 >= h.la2
    /\ (h.la1 - lat) % h.dy = 0
    /\ (lon - h.lo1) % h.dx = 0
    /\ LET y == (h.la1 - lat) \div h.dy
           x == (lon - h.lo1) \div h.dx
       IN  /\ y \in 0..(h.ny - 1)
           /\ x \in 0..(h.nx - 1)
           /\ y * h.nx + x + 1 \in DOMAIN values
           /\ values[y * h.nx + x + 1] = value

\* C4: the data of every emitted grid is row-major, north to south then west
\* to east, as its header says: the value of each source point is found at
\* index y*nx + x for its latitude la1 - y*dy and longitude lo1 + x*dx.
C4_DataOrderMatchesHeader ==
    /\ Built("simple") =>
        \A k \in 1..Size(wave_data.wave_height) :
            LET n   == Size(wave_data.wave_height)
                lat == LatOfFlat(wave_data, n, k)
                lon == LonOfFlat(wave_data, n, k)
                uv  == LeafletUV(wave_data.wave_height.flat[k],
                                 wave_data.wave_direction.flat[k])
            IN  /\ HeldAt(grid.header, grid.u_data, lat, lon, uv.u)
                /\ HeldAt(grid.header, grid.v_data, lat, lon, uv.v)
    /\ Built("gfs") =>
        \A k \in 1..Size(wave_data.u) :
            LET n   == Size(wave_data.u)
                lat == LatOfFlat(wave_data, n, k)
                lon == LonOfFlat(wave_data, n, k)
            IN  /\ HeldAt(velocity_data[1].header, velocity_data[1].data,
                          lat, lon, wave_data.u.flat[k])
                /\ HeldAt(velocity_data[2].header, velocity_data[2].data,
                          lat, lon, wave_data.v.flat[k])

\* C5: every grid constructed by regrid_to_velocity_format, by
\* fetch_gfs_wave_grid_simple or by convert_to_leaflet_format has
\* len(u) = len(v) = nx * ny for the header it returns.
C5_GridShape ==
    (Built("ww3") \/ Built("real") \/ Built("simple")) =>
        /\ Len(grid.u_data) = grid.header.nx * grid.header.ny
        /\ Len(grid.v_data) = grid.header.nx * grid.header.ny

\* a grid built by convert_to_leaflet_format from data of rank 3, flattened
\* to one row of several cells
C5_Witness ==
    /\ Built("simple")
    /\ Rank(wave_data.wave_height) = 3
    /\ grid.header.ny = 1
    /\ Len(grid.u_data) > Len(Lon1d(wave_data))

\* the header fields a band repeats
SameGeometry(bh, h) ==
    /\ bh.dx = h.dx /\ bh.dy = h.dy /\ bh.nx = h.nx /\ bh.ny = h.ny
    /\ bh.la1 = h.la1 /\ bh.la2 = h.la2 /\ bh.lo1 = h.lo1 /\ bh.lo2 = h.lo2

\* C6: save_to_json writes exactly two objects: the first with
\* parameterCategory 2, parameterNumber 2 and u_data, the second with
\* parameterCategory 2, parameterNumber 3 and v_data, both with the geometry
\* of the input header and nx*ny values.
C6_EncoderFields ==
    /\ (script \in {"ww3", "simple", "real", "encode"} /\ pc = "saved") =>
        /\ Len(file) = 2
        /\ file[1].header.parameterCategory = 2
        /\ file[1].header.parameterNumber = 2
        /\ file[1].data = grid.u_data
        /\ file[2].header.parameterCategory = 2
        /\ file[2].header.parameterNumber = 3
        /\ file[2].data = grid.v_data
        /\ \A b \in 1..2 :
            /\ SameGeometry(file[b].header, grid.header)
            /\ Len(file[b].data) = grid.header.nx * grid.header.ny
    \* the document convert_to_leaflet_velocity_format builds has the same form
    /\ (script = "gfs" /\ pc = "saved") =>
        /\ Len(file) = 2
        /\ file[1].header.parameterCategory = 2
        /\ file[1].header.parameterNumber = 2
        /\ file[1].data = Flatten(wave_data.u)
        /\ file[2].header.parameterCategory = 2
        /\ file[2].header.parameterNumber = 3
        /\ file[2].data = Flatten(wave_data.v)
        /\ \A b \in 1..2 :
            /\ SameGeometry(file[b].header, file[1].header)
            /\ Len(file[b].data) = file[b].header.nx * file[b].header.ny

\* save_to_json has written a grid whose u and v differ
C6_Witness ==
    /\ script \in {"ww3", "simple", "real", "encode"}
    /\ pc = "saved"
    /\ Len(file) = 2
    /\ grid.header.nx * grid.header.ny > 1
    /\ grid.u_data # grid.v_data

\* C7: every grid header has nx = round((lo2 - lo1)/dx) + 1 and
\* ny = round((la1 - la2)/dy) + 1.
C7_HeaderCounts ==
    (Built("ww3") \/ Built("real") \/ Built("simple")) =>
        LET h == grid.header
        IN  /\ h.nx = PyRoundDiv(h.lo2 - h.lo1, h.dx) + 1
            /\ h.ny = PyRoundDiv(h.la1 - h.la2, h.dy) + 1

\* C8: a header describing zero cells is rejected with InvalidGridError and
\* nothing is written: by convert_to_leaflet_format on an empty source grid,
\* and by save_to_json given a header with nx*ny = 0.
C8_ZeroGridRejected ==
    /\ (script = "simple" /\ pc # "start" /\ Size(wave_data.wave_height) = 0) =>
            (err = "InvalidGridError" /\ file = NoDocument)
    /\ (script = "encode" /\ pc # "built" /\ grid.header.nx * grid.header.ny = 0) =>
            (err = "InvalidGridError" /\ file = NoDocument)

\* the input of the single-sample scenario: one sample at latitude 0,
\* longitude 0, with height 4 m and direction 0
SingleSample == SrcGrid(1, 1, 40, [has |-> TRUE, val |-> 0], 2)

\* C9: in the single-sample scenario the regridded output is (0, -2) at every
\* ocean cell and (0, 0) at every land cell.
C9_SingleSampleScenario ==
    (Built("ww3") /\ wave_data = SingleSample) =>
        \A k \in 1..Len(grid.u_data) :
            IF LandCell(k)
            THEN grid.u_data[k] = 0 /\ grid.v_data[k] = 0
            ELSE grid.u_data[k] = 0 /\ grid.v_data[k] = -20

\* the squared distance, as the search computes it, from target cell k to
\* each sample the search visits (idx), in the order it visits them
VisitDists(wd, idx, k) ==
    [m \in DOMAIN idx |->
        SqDist(TargetLat(RowOf(k, GridNx)), TargetLon(ColOf(k, GridNx)),
               SrcLat(wd, idx[m][1], idx[m][2]), SrcLon(wd, idx[m][1], idx[m][2]))]

\* the conversion of each sample the search visits
VisitUVs(wd, idx) ==
    [m \in DOMAIN idx |-> SampleUV(wd, idx[m][1] * wd.heights.shape[2] + idx[m][2] + 1)]

\* the first place of the least value of a sequence of numbers
FirstLeast(ds) ==
    LET least == CHOOSE d \in SeqRange(ds) : \A e \in SeqRange(ds) : d <= e
    IN  CHOOSE m \in DOMAIN ds : ds[m] = least /\ \A n \in 1..(m - 1) : ds[n] # least

\* C10: of the samples the search visits, the one a cell is converted from is
\* the first, in row then column order, at the least squared distance: a
\* later sample at the same distance does not replace it.
C10_FirstOfEquidistantWins ==
    Built("ww3") =>
        LET idx == WindowIdx(wave_data)
            uvs == VisitUVs(wave_data, idx)
        IN  \A k \in 1..Len(grid.u_data) :
                LET first == FirstLeast(VisitDists(wave_data, idx, k))
                IN  /\ grid.u_data[k] = uvs[first].u
                    /\ grid.v_data[k] = uvs[first].v

\* a cell with two visited samples of different value at the same least
\* distance, converted from the earlier one
C10_Witness ==
    /\ script = "ww3" /\ pc = "built"
    /\ LET idx == WindowIdx(wave_data)
           uvs == VisitUVs(wave_data, idx)
       IN  \E k \in 1..Len(grid.u_data) :
            LET ds == VisitDists(wave_data, idx, k)
                m  == FirstLeast(ds)
            IN  /\ \E n \in DOMAIN ds : n > m /\ ds[n] = ds[m] /\ uvs[n] # uvs[m]
                /\ grid.u_data[k] = uvs[m].u
                /\ grid.v_data[k] = uvs[m].v

\* the stated equations: mathAngle = 270 - direction, magnitude = 0.5 * height,
\* u = magnitude * cos(mathAngle), v = magnitude * sin(mathAngle)
FormulaUV(direction, height) ==
    LET mathAngle == 270 - direction
        magnitude == height \div 2
    IN  [u |-> magnitude * FCos(mathAngle), v |-> magnitude * FSin(mathAngle)]

\* (u, v) for height 2 m at the four cardinal directions
CardinalUV(direction) ==
    CASE direction = 0   -> [u |-> 0, v |-> -10]
      [] direction = 90  -> [u |-> -10, v |-> 0]
      [] direction = 180 -> [u |-> 0, v |-> 10]
      [] direction = 270 -> [u |-> 10, v |-> 0]

\* the copies of the conversion a call of wave_to_uv runs
Copies == {"simple", "np", "regrid", "fill"}

C12_NoSampleIsZero ==
    Built("real") =>
        /\ Len(grid.u_data) = GridNx * GridNy
        /\ Len(grid.v_data) = GridNx * GridNy
        /\ \A k \in 1..(GridNx * GridNy) :
            NearestKey(RowOf(k, GridNx), ColOf(k, GridNx), SampleStep)
                    \notin DOMAIN wave_data
                => grid.u_data[k] = 0 /\ grid.v_data[k] = 0

\* a filled grid with a cell that found no sample and is zero, and the next
\* cell not zero
C12_Witness ==
    /\ Built("real")
    /\ \E k \in 1..(GridNx * GridNy - 1) :
        /\ NearestKey(RowOf(k, GridNx), ColOf(k, GridNx), SampleStep)
                \notin DOMAIN wave_data
        /\ grid.u_data[k] = 0 /\ grid.v_data[k] = 0
        /\ grid.u_data[k + 1] # 0 \/ grid.v_data[k + 1] # 0

\* no region of is_land_detailed holds the point
NoRegionMatches(lat, lon) ==
    ~ \/ LandPolar(lat)
      \/ LandNorthAmerica(lat, lon) \/ LandCentralAmerica(lat, lon)
      \/ LandSouthAmerica(lat, lon) \/ LandEurope(lat, lon)
      \/ LandAfrica(lat, lon) \/ LandMiddleEast(lat, lon)
      \/ LandAsia(lat, lon) \/ LandOceania(lat, lon)
      \/ LandAtlanticIslands(lat, lon) \/ LandPacificIslands(lat, lon)

\* is_land_detailed has returned for the point (lat, lon), given as it is
IsLandCallOf(lat, lon) ==
    /\ script = "is_land_detailed" /\ pc = "returned"
    /\ args.turns = 0 /\ args.lat = lat /\ args.lon_in = lon

\* C13: is_land_detailed returns land for central Australia (-25, 135) and
\* central Siberia (60, 100), ocean for the mid-Pacific (0, -160) and the
\* mid-Atlantic (30, -40), and ocean whenever no region matches.
C13_LandInteriorsAndOpenOcean ==
    /\ IsLandCallOf(-2500, 13500) => result.value = TRUE
    /\ IsLandCallOf(6000, 10000) => result.value = TRUE
    /\ IsLandCallOf(0, -16000) => result.value = FALSE
    /\ IsLandCallOf(3000, -4000) => result.value = FALSE
    /\ (script = "is_land_detailed" /\ pc = "returned"
            /\ NoRegionMatches(args.lat, args.lon)) => result.value = FALSE

\* is_land_detailed has returned land for central Australia
C13_Witness == IsLandCallOf(-2500, 13500) /\ result.value = TRUE

\* C14: is_land_detailed returns for every latitude and longitude, and what
\* it returns for lon + 360 k is what it returns for lon, the seam 180 and
\* -180 included.
C14_TotalAndPeriodic ==
    /\ (script = "is_land_detailed") ~> (pc = "returned")
    /\ []((script = "is_land_detailed" /\ pc = "returned") =>
            result.value = is_land_detailed(args.lat, args.lon_in))

\* the writes of the output file the run has made
Writes == Len(SelectSeq(log, LAMBDA e : e = WriteEvent))
\* the run is over: main returned, or an exit or exception ended it
Ended == pc \in {"saved", "failed"}
\* the mains the claim C16 names
ExitingMains == {"simple", "gfs", "backend"}

\* C16: every run of main of fetch_simple, fetch_gfs_data and the backend
\* ends, whatever the downloads and parsers answer; it ends either normally
\* with the output JSON written exactly once, or with an exit or exception
\* and nothing written; nothing is written before the end and nothing
\* happens after it.
C16_OneOfTwoOutcomes ==
    /\ [](script \in ExitingMains =>
            /\ pc = "saved" => Writes = 1 /\ file # NoDocument /\ err = "none"
            /\ pc = "failed" => Writes = 0 /\ file = NoDocument /\ err # "none"
            /\ ~Ended => Writes = 0 /\ file = NoDocument /\ err = "none")
    /\ [][(script \in ExitingMains) => ~Ended]_vars
    /\ (script \in ExitingMains /\ pc = "main") ~> Ended

\* the backend wrote its file after the first endpoint raised and the second
\* gave data
C16_Witness ==
    /\ script = "backend" /\ pc = "saved"
    /\ log = << OpenEvent(opendap_urls[1], "raises"),
                OpenEvent(opendap_urls[2], "data"), WriteEvent >>
    /\ file = << fetch_from_opendap(opendap_urls[2]) >>

\* the OpenDAP requests of the run, in the order made
OpenEvents == SelectSeq(log, LAMBDA e : e.op = "open_dataset")

\* C18: fetch_latest_forecast asks the OpenDAP endpoints in list order and
\* returns the data of the first that gives any, asking no further one; when
\* every endpoint failed it returns the generated sample dataset of 80 time
\* steps; its result is never None, and main never takes the exit of "No
\* output file generated".
C18_SampleDataWhenAllFail ==
    (script = "backend" /\ pc # "main") =>
        /\ \A k \in 1..Len(OpenEvents) :
            /\ OpenEvents[k].url = opendap_urls[k]
            /\ OpenEvents[k].outcome = "data" =>
                /\ k = Len(OpenEvents)
                /\ result.value = fetch_from_opendap(opendap_urls[k])
        /\ (\A k \in 1..Len(OpenEvents) : OpenEvents[k].outcome # "data") =>
                /\ Len(OpenEvents) = Len(opendap_urls)
                /\ result.value = generate_sample_data
                /\ result.value.timeSteps = 80
        /\ result.value # NoData
        /\ ~(pc = "failed" /\ err = "SystemExit")

\* C19: when the real data fails in fetch_wavewatch3.main or in
\* fetch_real_gfs.main, the handler falls back to the synthetic data of
\* fetch_simple: the handler raises nothing itself, the run does not end in
\* failure, and when it is over gfs-wave-data.json has been written.
C19_FallbackWritesSynthetic ==
    (script \in {"ww3", "real"} /\ err # "none") =>
        /\ err \in {"Exception", "TypeError"}
        /\ pc \in {"except", "built", "saved"}
        /\ pc = "saved" => Writes = 1 /\ file # NoDocument

\* C17: for every height h >= 0 and every direction, both wave_to_uv
\* functions return a vector with u^2 + v^2 = (h/2)^2, and (0, 0) for h = 0.
C17_MagnitudeIsHalfHeight ==
    (script = "wave_to_uv" /\ pc = "returned" /\ args.height >= 0) =>
        \A c \in {"simple", "np"} :
            LET uv == result.value[c]
                m  == args.height \div 2
            IN  /\ uv.u * uv.u + uv.v * uv.v = m * m
                /\ args.height = 0 => uv = [u |-> 0, v |-> 0]

\* wave_to_uv has returned a vector of length 2 for height 4
C17_Witness ==
    /\ script = "wave_to_uv" /\ pc = "returned"
    /\ args.height = 40 /\ args.direction = 180
    /\ result.value.simple = [u |-> 0, v |-> 20]
    /\ result.value.np = [u |-> 0, v |-> 20]

IsGet(e) == e.op = "get"
IsSleep(e) == e.op = "sleep"
\* the response had status 200
Http200(e) == IsGet(e) /\ e.outcome \in {"200", "200_body_raises"}
\* the response had status 200 and its body was read to the end
Downloaded(e) == IsGet(e) /\ e.outcome = "200"

\* download_grib2 has issued at most max_retries GETs, numbered from 0
RetryBound ==
    /\ Len(SelectSeq(log, IsGet)) <= Max(0, args.max_retries)
    /\ \A i \in DOMAIN log :
        IsGet(log[i]) => log[i].attempt = Len(SelectSeq(SubSeq(log, 1, i - 1), IsGet))

\* whatever follows attempt k is a sleep of 2^k seconds, every sleep follows
\* an attempt that is not the last, and the call does not end on a sleep
BackoffSchedule ==
    /\ \A i \in DOMAIN log :
        /\ (IsGet(log[i]) /\ i < Len(log)) =>
                log[i + 1] = SleepEvent(2 ^ log[i].attempt)
        /\ IsSleep(log[i]) =>
                /\ i > 1 /\ IsGet(log[i - 1])
                /\ log[i - 1].attempt < args.max_retries - 1
    /\ pc = "returned" => (log = <<>> \/ IsGet(log[Len(log)]))

\* the call returns the path on the attempt Success holds of, which is its
\* last, and None when it has made max_retries attempts and Success holds of
\* none
ReturnsAtFirst(Success(_)) ==
    /\ \A i \in DOMAIN log :
        Success(log[i]) =>
            /\ i = Len(log)
            /\ pc = "returned" /\ result = Returned("tmp_file.name")
    /\ (pc = "returned" /\ \A i \in DOMAIN log : ~Success(log[i])) =>
            /\ result = Returned("None")
            /\ Len(SelectSeq(log, IsGet)) = Max(0, args.max_retries)

\* C20 as stated: at most max_retries GETs; the path is returned at the first
\* HTTP 200 and no further request is issued; a failed attempt k that is not
\* the last is followed by a sleep of 2^k seconds, the last by none; after
\* max_retries failed attempts None is returned; the call always returns.
C20_DownloadRetries ==
    /\ [](script = "download_grib2" =>
            RetryBound /\ BackoffSchedule /\ ReturnsAtFirst(Http200))
    /\ (script = "download_grib2") ~> (pc = "returned")

\* C20 amended: as stated, but the path is returned at the first attempt
\* whose response has status 200 and whose body is read without an
\* exception; a 200 response whose body read raises is a failed attempt like
\* any other, slept after and retried.
C20_DownloadRetriesBodyRead ==
    /\ [](script = "download_grib2" =>
            RetryBound /\ BackoffSchedule /\ ReturnsAtFirst(Downloaded))
    /\ (script = "download_grib2") ~> (pc = "returned")

\* the path returned on the third attempt, after a 200 whose body read
\* raised, a sleep of 1 s, another status and a sleep of 2 s
C20_Witness ==
    /\ script = "download_grib2" /\ pc = "returned"
    /\ args.max_retries = 3
    /\ result = Returned("tmp_file.name")
    /\ log = << GetEvent(0, "200_body_raises"), SleepEvent(1),
                GetEvent(1, "other_status"), SleepEvent(2),
                GetEvent(2, "200") >>

\* the call of get_latest_gfs_cycle has returned
CycleReturned == script = "get_latest_gfs_cycle" /\ pc = "returned"
\* the cycle instants of the day up to now: 00, 06, 12 or 18 o'clock to the
\* second
CycleInstants(now) == {21600 * k : k \in ((now \div 21600) - 4)..(now \div 21600)}
\* c is the latest cycle instant at least four hours before now
LatestAvailable(c, now) ==
    /\ HourOf(c) \in {0, 6, 12, 18} /\ c % 3600 = 0
    /\ 4 * 3600 <= now - c /\ now - c < 10 * 3600
    /\ \A t \in CycleInstants(now) : now - t >= 4 * 3600 => t <= c

\* C21: at every time now, get_latest_gfs_cycle (and the run time of
\* get_latest_ww3_url) is an instant at 00, 06, 12 or 18 o'clock, minute and
\* second zero, and the latest such instant at least 4 hours before now:
\* 4h <= now - cycle < 10h, the day before's 18Z where it has to be.
C21_LatestCycleFourHoursOld ==
    CycleReturned =>
        /\ LatestAvailable(result.value.gfs, args.now)
        /\ LatestAvailable(result.value.ww3.run_time, args.now)

\* one second before 04:00 of day 1 the cycle is 18Z of day 0
C21_Witness ==
    /\ CycleReturned
    /\ args.now = Datetime(1, 3, 59, 59)
    /\ result.value.gfs = Datetime(0, 18, 0, 0)

\* C22: at every time now, get_latest_gfs_cycle of fetch_simple selects the
\* date and the hour of the cycle that get_latest_gfs_cycle of fetch_gfs_data
\* selects, between 04:00 and 07:59 as at any other time.
C22_SimpleSelectsSameCycle ==
    CycleReturned =>
        /\ result.value.simple.cycle_date = StrftimeYmd(result.value.gfs)
        /\ result.value.simple.cycle_hour = TwoDigits(HourOf(result.value.gfs))

\* C23: when every lattice point of the sampling pass is in sampled_data,
\* find_nearest_sample finds a sample for every cell of the 144 x 73 grid,
\* the last columns x = 142 and x = 143 included; the sample lies within 2
\* grid steps of the cell in each axis, and no cell falls to the (0, 0) of a
\* cell without sample.
C23_FullLatticeCoversGrid ==
    (Built("real") /\ DOMAIN wave_data = Lattice) =>
        \A y \in 0..(GridNy - 1), x \in 0..(GridNx - 1) :
            LET key == NearestKey(y, x, SampleStep)
                k   == y * GridNx + x + 1
            IN  /\ HasSample(y, x, wave_data, SampleStep)
                /\ Abs(key[1] - y) <= 2 /\ Abs(key[2] - x) <= 2
                /\ find_nearest_sample(y, x, wave_data, SampleStep).wave_height > 0
                      => (grid.u_data[k] # 0 \/ grid.v_data[k] # 0)

\* C24: a call of fetch_gfs_wave_data makes at most two GETs, the first to
\* NOMADS; the AWS mirror is asked only after the NOMADS request failed with
\* a request error, never after NOMADS downloaded; the call returns what
\* parse_grib_file makes of the file of the first source that downloaded,
\* and None when both failed; it always returns and never raises.
C24_MirrorOnlyAfterFailure ==
    /\ [](script = "fetch_gfs_wave_data" =>
            /\ Len(log) <= 2
            /\ \A i \in DOMAIN log : log[i].op = "get" /\ log[i].url = GfsSources[i]
            /\ Len(log) = 2 => log[1].outcome # "ok"
            /\ err = "none"
            /\ pc = "returned" =>
                /\ Len(log) >= 1
                /\ log[Len(log)].outcome = "ok" =>
                        result.value = parse_downloaded(log[Len(log)].content)
                /\ log[Len(log)].outcome # "ok" =>
                        Len(log) = 2 /\ result.value = None)
    /\ (script = "fetch_gfs_wave_data") ~> (pc = "returned")

\* NOMADS answered with an error status, the mirror downloaded, and the
\* mirror's file, parsed, was returned
C24_Witness ==
    /\ script = "fetch_gfs_wave_data" /\ pc = "returned"
    /\ Len(log) = 2
    /\ log[1].outcome = "http_error" /\ log[2].outcome = "ok"
    /\ log[2].content.readable
    /\ result.value = parse_grib_file(log[2].content.ds)
    /\ result.value # None

\* the days the run asked for, in the order made: the GETs, and the calls
\* that raised before their GET
PointRequests == SelectSeq(log, LAMBDA e : e.op \in {"get", "except"})

\* C25: fetch_gfs_wave_point_forecast asks for the days in increasing order,
\* day d at forecast hour 24 d, for every d below num_days with 24 d <= 384
\* and for no other, so for at most 17 days whatever num_days is; an empty
\* result or a failure for one day does not stop the loop; the entries
\* returned are in strictly increasing day order, each with forecast_hour =
\* 24 * day between 0 and 384.
C25_DaysInOrderUpTo384 ==
    (script = "fetch_gfs_wave_point_forecast" /\ pc = "returned") =>
        /\ Len(PointRequests) = Min(args.num_days, 17)
        /\ \A i \in 1..Len(PointRequests) :
            /\ PointRequests[i].forecast_hour = 24 * (i - 1)
            /\ PointRequests[i].forecast_hour <= 384
            /\ PointRequests[i].op = "get" =>
                    PointRequests[i].outcome = OutcomeOn(args, i - 1)
        /\ Len(result.value) <= 17
        /\ \A i \in 1..Len(result.value) :
            /\ result.value[i].forecast_hour = 24 * result.value[i].day
            /\ result.value[i].forecast_hour \in 0..384
            /\ i > 1 => result.value[i - 1].day < result.value[i].day

\* num_days is 18, the GET of day 5 timed out, and the days up to 16 (hour
\* 384) were still asked for
C25_Witness ==
    /\ script = "fetch_gfs_wave_point_forecast" /\ pc = "returned"
    /\ args.num_days = 18 /\ args.bad_day = 5 /\ args.bad_outcome = "timeout"
    /\ Len(PointRequests) = 17
    /\ PointRequests[6].op = "get" /\ PointRequests[6].outcome = "timeout"
    /\ PointRequests[17].op = "get" /\ PointRequests[17].forecast_hour = 384

\* C26: whatever the GETs come to (200, another status, timeout, another
\* error) fetch_gfs_point_data gives None, fetch_gfs_wave_point_forecast
\* returns the empty list for every lat, lon and num_days, and the script
\* prints the synthetic forecast of the 10 days 0..9.
C26_AlwaysSynthetic ==
    (script \in {"fetch_gfs_wave_point_forecast", "fetch_point_forecast"}
        /\ pc = "returned") =>
        /\ result.value = <<>>
        /\ script = "fetch_point_forecast" =>
            LET printed == log[Len(log)]
            IN  /\ printed.op = "print"
                /\ Len(printed.forecast) = 10
                /\ \A i \in 1..10 :
                    /\ printed.forecast[i].day = i - 1
                    /\ "synthetic" \in DOMAIN printed.forecast[i]
                    /\ "data" \notin DOMAIN printed.forecast[i]

\* the script ran at the default place, its first GET gave status 200, one
\* timed out, and the synthetic forecast was printed
C26_Witness ==
    /\ script = "fetch_point_forecast" /\ pc = "returned"
    /\ args.lat = 3500 /\ args.lon = -4000
    /\ Len(PointRequests) = 10
    /\ PointRequests[1].outcome = "200" /\ PointRequests[6].outcome = "timeout"
    /\ PointRequests[1].op = "get" /\ PointRequests[1].lon_grid = 32000
    /\ log[Len(log)].op = "print" /\ Len(log[Len(log)].forecast) = 10

====
